---- MODULE Spec2Model ----
(***************************************************************************)
(* Model of gpredict's src/sat-data.c: sat_data_read (locate a satellite's *)
(* three-line element set in a .tle file, parse it, select the ephemeris   *)
(* model and initialise the satellite at epoch) and sat_data_init.         *)
(*                                                                         *)
(* Conventions                                                             *)
(*  - Angles are integers counted in units of pi/6 rad (30 degrees), so    *)
(*    that pi, pi/2 and pi/3 are exact.                                    *)
(*  - A text line of the file is a record: cols holds its first seven      *)
(*    characters (C indices 0..6), ck says whether the line passes the     *)
(*    parser's structure/checksum test, and the remaining fields are the   *)
(*    numeric fields the parser extracts from it.  Lines are shorter than  *)
(*    80 characters, so one fgets reads one line.                          *)
(*  - sat->flags is the set of flag bits that are set (0 is {}).           *)
(***************************************************************************)
EXTENDS Integers, Sequences, FiniteSets, TLC

\* ------------------------------------------------------------------ bounds
\* longest file, in lines
MaxLines == 6
\* Calculate_LatLonAlt returns k * (pi/2) for |k| <= MaxQuarterTurns
MaxQuarterTurns == 6

\* --------------------------------------------------------------- constants
pi == 6
twopi == 2 * pi
xmnpda == 1440
xkmper == 6378
ae == 1
PERIOD_LIMIT == 225

NULL == "NULL"
\* a null qth_t pointer; a valid pointer is the set of the one record it points to
NULL_QTH == {}

DEEP_SPACE_EPHEM_FLAG == "DEEP_SPACE_EPHEM_FLAG"
SGP4_INITIALIZED_FLAG == "SGP4_INITIALIZED_FLAG"
SDP4_INITIALIZED_FLAG == "SDP4_INITIALIZED_FLAG"

\* ------------------------------------------------------------------- lines
Line(c, ok, ep, no, mo, rev) ==
    [cols |-> c, ck |-> ok, epoch |-> ep, xno |-> no, xmo |-> mo, revnum |-> rev]

\* a satellite name line
NameLine == Line(<<"I", "S", "S", " ", "(", "Z", "A">>, FALSE, 0, 0, 0, 0)
\* first data line of catalog number 5, epoch 2008 day 1
L1Cat5 == Line(<<"1", " ", "0", "0", "0", "0", "5">>, TRUE, 8001, 0, 0, 0)
\* first data line of catalog number 7 (space padded), epoch 1998 day 32
L1Cat7 == Line(<<"1", " ", " ", " ", " ", " ", "7">>, TRUE, 98032, 0, 0, 0)
\* a damaged first data line: the catalog field reads +5.e0, which
\* g_ascii_strtod takes for 5, and the checksum is wrong
L1Bad == Line(<<"1", " ", "+", "5", ".", "e", "0">>, FALSE, 8001, 0, 0, 0)
\* second data line: 15 rev/day, mean anomaly pi/2, revolution 0 at epoch
L2Near == Line(<<"2", " ", "0", "0", "0", "0", "5">>, TRUE, 0, 15, pi \div 2, 0)
\* second data line: 2 rev/day, mean anomaly 3pi/2, revolution 3 at epoch
L2Deep == Line(<<"2", " ", "0", "0", "0", "0", "7">>, TRUE, 0, 2, 3 * (pi \div 2), 3)

\* what a line buffer holds before anything was written to it
UNINIT == Line(<<"?", "?", "?", "?", "?", "?", "?">>, FALSE, 0, 0, 0, 0)

DataLines == {L1Cat5, L1Cat7, L1Bad, L2Near, L2Deep}
LineSet == DataLines \cup {NameLine}

\* The files: every third line, starting with the first, is a name line (the
\* code never looks into tle_str[0]); the other lines are any data lines.
RECURSIVE FilesOfLen(_)
FilesOfLen(n) ==
    IF n = 0 THEN {<<>>}
    ELSE {Append(f, x) : f \in FilesOfLen(n - 1),
                         x \in IF (n - 1) % 3 = 0 THEN {NameLine} ELSE DataLines}

Files == UNION {FilesOfLen(n) : n \in 0..MaxLines}
CatNums == {5, 7}

\* an observer at 60 N, 30 E, 1000 m
QthSet == {[lat |-> 60, lon |-> 30, alt |-> 1000]}

\* ----------------------------------------------------------- pure helpers
\* deg * de2ra
Radians(deg) == (deg * pi) \div 180

\* Degrees(): radians to degrees, arg * 180 / pi
Degrees(arg) == (arg * 180) \div pi

\* ---------------------------------------------------------------- guint
\* A guint (32 bits, unsigned) is the record of its two 16-bit halves:
\* its value is hi * 65536 + lo.
Half == 65536

Guint(h, l) == [hi |-> h, lo |-> l]

\* 2^32 - u modulo 2^32
Neg32(u) ==
    IF u.lo = 0 THEN Guint((Half - u.hi) % Half, 0)
    ELSE Guint(Half - 1 - u.hi, Half - u.lo)

\* the conversion of a gint to guint (line 103: catnr == catnum converts
\* catnum), modulo 2^32
ToGuint(c) ==
    IF c >= 0 THEN Guint(c \div Half, c % Half)
    ELSE Neg32(Guint((0 - c) \div Half, (0 - c) % Half))

UINT_MAX == Guint(Half - 1, Half - 1)

\* A magnitude below 2^64 is held in four 16-bit limbs, least significant
\* first; huge says that it is 2^64 or more (an infinite double included).
Limbs(m) == [l |-> <<m % Half, m \div Half, 0, 0>>, huge |-> FALSE]

MulSmall(v, m) ==
    LET t1 == v.l[1] * m
        t2 == v.l[2] * m + t1 \div Half
        t3 == v.l[3] * m + t2 \div Half
        t4 == v.l[4] * m + t3 \div Half
    IN  [l |-> <<t1 % Half, t2 % Half, t3 % Half, t4 % Half>>,
         huge |-> v.huge \/ t4 \div Half > 0]

\* v * b^n
RECURSIVE Scale(_, _, _)
Scale(v, b, n) ==
    IF n = 0 \/ v.huge \/ v.l = <<0, 0, 0, 0>> THEN v ELSE Scale(MulSmall(v, b), b, n - 1)

\* m / b^n, rounded towards zero
RECURSIVE DivPow(_, _, _)
DivPow(m, b, n) == IF n = 0 \/ m = 0 THEN m ELSE DivPow(m \div b, b, n - 1)

\* ------------------------------------------------------- g_ascii_strtod
\* the character at position i; the string ends with a NUL (line 100)
NUL == "NUL"
At(s, i) == IF i >= 1 /\ i <= Len(s) THEN s[i] ELSE NUL

\* the vertical tab, character 0x0B, for which a string has no escape
VT == "VT"

\* g_ascii_isspace: space, \t, \n, \v, \f, \r
IsSpace(c) == c \in {" ", "\t", "\n", VT, "\f", "\r"}

IsDigit(c) == c \in {"0", "1", "2", "3", "4", "5", "6", "7", "8", "9"}

IsHexDigit(c) ==
    IsDigit(c) \/ c \in {"a", "b", "c", "d", "e", "f", "A", "B", "C", "D", "E", "F"}

DigitVal(c) ==
    CASE c = "0" -> 0 [] c = "1" -> 1 [] c = "2" -> 2 [] c = "3" -> 3 [] c = "4" -> 4
      [] c = "5" -> 5 [] c = "6" -> 6 [] c = "7" -> 7 [] c = "8" -> 8 [] c = "9" -> 9
      [] c \in {"a", "A"} -> 10 [] c \in {"b", "B"} -> 11 [] c \in {"c", "C"} -> 12
      [] c \in {"d", "D"} -> 13 [] c \in {"e", "E"} -> 14 [] c \in {"f", "F"} -> 15

IsDigitOf(c, base) == IF base = 16 THEN IsHexDigit(c) ELSE IsDigit(c)

\* the position after the digits that start at position i
RECURSIVE DigitsEnd(_, _, _)
DigitsEnd(s, i, base) ==
    IF IsDigitOf(At(s, i), base) THEN DigitsEnd(s, i + 1, base) ELSE i

\* the number the digits at positions i .. j-1 spell, after acc
RECURSIVE ParseDigits(_, _, _, _, _)
ParseDigits(s, i, j, base, acc) ==
    IF i >= j THEN acc ELSE ParseDigits(s, i + 1, j, base, base * acc + DigitVal(s[i]))

RECURSIVE SkipSpace(_, _)
SkipSpace(s, i) == IF IsSpace(At(s, i)) THEN SkipSpace(s, i + 1) ELSE i

\* the double with magnitude mant * base^exp
Double(k, n, m, b, e) == [kind |-> k, neg |-> n, mant |-> m, base |-> b, exp |-> e]

\* mantissa and exponent of the number that starts at position p, in base 10
\* (exponent letter e, power of 10) or 16 (exponent letter p, power of 2):
\* digits, an optional point and more digits, and an exponent when at least
\* one digit follows its letter and optional sign
Number(s, p, base, neg) ==
    LET i1 == DigitsEnd(s, p, base)
        dot == At(s, i1) = "."
        i2 == IF dot THEN DigitsEnd(s, i1 + 1, base) ELSE i1
        nfrac == IF dot THEN i2 - (i1 + 1) ELSE 0
        whole == ParseDigits(s, p, i1, base, 0)
        mant == IF dot THEN ParseDigits(s, i1 + 1, i2, base, whole) ELSE whole
        letter == IF base = 16 THEN {"p", "P"} ELSE {"e", "E"}
        signed == At(s, i2 + 1) \in {"+", "-"}
        d1 == IF signed THEN i2 + 2 ELSE i2 + 1
        d2 == DigitsEnd(s, d1, 10)
        hasexp == At(s, i2) \in letter /\ d2 > d1
        e == IF ~hasexp THEN 0
             ELSE IF At(s, i2 + 1) = "-" THEN 0 - ParseDigits(s, d1, d2, 10, 0)
             ELSE ParseDigits(s, d1, d2, 10, 0)
    IN  [digits |-> (i1 - p) + nfrac,
         value |-> Double("finite", neg, mant, IF base = 16 THEN 2 ELSE 10,
                          e - (IF base = 16 THEN 4 * nfrac ELSE nfrac))]

\* g_ascii_strtod (catstr, NULL), the strtod of the C locale: leading white
\* space, an optional sign, then "inf" or "nan" in any case, a hexadecimal
\* number after "0x", or a decimal number; 0 when no number is there
g_ascii_strtod(s) ==
    LET p0 == SkipSpace(s, 1)
        neg == At(s, p0) = "-"
        p == IF At(s, p0) \in {"+", "-"} THEN p0 + 1 ELSE p0
        hex == Number(s, p + 2, 16, neg)
        dec == Number(s, p, 10, neg)
    IN  IF At(s, p) \in {"i", "I"} /\ At(s, p + 1) \in {"n", "N"} /\ At(s, p + 2) \in {"f", "F"}
        THEN Double("inf", neg, 0, 10, 0)
        ELSE IF At(s, p) \in {"n", "N"} /\ At(s, p + 1) \in {"a", "A"} /\ At(s, p + 2) \in {"n", "N"}
        THEN Double("nan", neg, 0, 10, 0)
        ELSE IF At(s, p) = "0" /\ At(s, p + 1) \in {"x", "X"} /\ hex.digits > 0
        THEN hex.value
        ELSE IF dec.digits > 0
        THEN dec.value
        ELSE Double("finite", FALSE, 0, 10, 0)

\* the magnitude of a finite double, rounded towards zero
Trunc(d) ==
    IF d.exp >= 0 THEN Scale(Limbs(d.mant), d.base, d.exp)
    ELSE Limbs(DivPow(d.mant, d.base, 0 - d.exp))

\* How the build converts a double to guint: with cvttsd2si to a signed
\* 64-bit integer of which the low 32 bits are kept (x86-64), with
\* vcvttsd2usi straight to an unsigned 32-bit integer (x86-64 with AVX-512),
\* or with cvttsd2si to a signed 32-bit integer, applied to d - 2^31 and the
\* top bit flipped when d >= 2^31 (32-bit x86 with SSE2).
Builds == {"cvttsd2si_64", "vcvttsd2usi", "cvttsd2si_32"}

\* 2^31, what cvttsd2si gives for a value outside the signed 32 bits
INT_MIN32 == Guint(Half \div 2, 0)

\* (guint) d on build b.  The value rounded towards zero when that is in
\* 0 .. UINT_MAX, on every build.  Otherwise the behaviour is undefined and
\* the build decides.
\*   cvttsd2si_64: the low 32 bits of the signed 64-bit value; 0 when the
\*     value does not fit 64 bits, is infinite or a NaN.
\*   vcvttsd2usi: UINT_MAX.
\*   cvttsd2si_32: below 0, the value modulo 2^32 when it is -2^31 or more
\*     and 2^31 when it is less; 2^31 for a NaN; 0 for 2^32 or more.
guint_cast(d, b) ==
    IF d.kind # "finite"
    THEN CASE b = "cvttsd2si_64" -> Guint(0, 0)
           [] b = "vcvttsd2usi" -> UINT_MAX
           [] b = "cvttsd2si_32" -> IF d.kind = "nan" \/ d.neg THEN INT_MIN32 ELSE Guint(0, 0)
    ELSE LET v == Trunc(d)
             low == Guint(v.l[2], v.l[1])
             fits32 == ~v.huge /\ v.l[3] = 0 /\ v.l[4] = 0
             fits64 == ~v.huge /\ v.l[4] < Half \div 2
             fits31 == fits32 /\ (low.hi < Half \div 2 \/ low = INT_MIN32)
         IN  IF fits32 /\ (~d.neg \/ low = Guint(0, 0)) THEN low
             ELSE CASE b = "cvttsd2si_64" ->
                         IF ~fits64 THEN Guint(0, 0)
                         ELSE IF d.neg THEN Neg32(low) ELSE low
                    [] b = "vcvttsd2usi" -> UINT_MAX
                    [] b = "cvttsd2si_32" ->
                         IF ~d.neg THEN Guint(0, 0)
                         ELSE IF fits31 THEN Neg32(low) ELSE INT_MIN32

\* for (i = 2; i < 7; i++) catstr[i-2] = tle_str[1][i];
catstr(line) == SubSeq(line.cols, 3, 7)

\* line 101: catnr on build b
catnr(line, b) == guint_cast(g_ascii_strtod(catstr(line)), b)

\* atol of the catalog field, as the parser reads it
atol(s) ==
    LET p0 == SkipSpace(s, 1)
        p == IF At(s, p0) \in {"+", "-"} THEN p0 + 1 ELSE p0
        n == ParseDigits(s, p, DigitsEnd(s, p, 10), 10, 0)
    IN  IF At(s, p0) = "-" THEN 0 - n ELSE n

\* Get_Next_Tle_Set (sgp_in.c): 1 when both data lines carry their line
\* number and pass the checksum test, another value otherwise
Get_Next_Tle_Set(lines) ==
    IF /\ lines[2].cols[1] = "1" /\ lines[2].ck
       /\ lines[3].cols[1] = "2" /\ lines[3].ck
    THEN 1 ELSE -2

\* the element set Get_Next_Tle_Set stores into sat->tle on success
Convert_Satellite_Data(lines) ==
    [catnr |-> atol(catstr(lines[2])), epoch |-> lines[2].epoch,
     xno |-> lines[3].xno, xmo |-> lines[3].xmo, revnum |-> lines[3].revnum,
     bstar |-> 0]

TleZero == [catnr |-> 0, epoch |-> 0, xno |-> 0, xmo |-> 0, revnum |-> 0, bstar |-> 0]

\* select_ephemeris (sgp4sdp4.c): deep space when the period is at least
\* 225 minutes; xno is kept in revolutions per day, and a mean motion of
\* zero has an unbounded period
select_ephemeris(s) ==
    IF s.tle.xno = 0 \/ xmnpda \div s.tle.xno >= PERIOD_LIMIT
    THEN [s EXCEPT !.flags = @ \cup {DEEP_SPACE_EPHEM_FLAG}]
    ELSE [s EXCEPT !.flags = @ \ {DEEP_SPACE_EPHEM_FLAG}]

\* Julian_Date_of_Epoch (sgp_time.c), whole days; epoch is YYDDD
Julian_Date_of_Year(year) ==
    LET y == year - 1
        A == y \div 100
        B == 2 - A + A \div 4
    IN  (1461 * y) \div 4 + 428 + 1720994 + B

Julian_Date_of_Epoch(epoch) ==
    LET yy == epoch \div 1000
        day == epoch % 1000
        year == IF yy < 57 THEN yy + 2000 ELSE yy + 1900
    IN  Julian_Date_of_Year(year) + day

\* acos for the two ratios the model uses: acos(1) = 0, acos(1/2) = pi/3
acos(num, den) == IF num = den THEN 0 ELSE pi \div 3

\* get_orbit_type (orbit-tools.c): geostationary when the mean motion is
\* one revolution per day, unknown otherwise
get_orbit_type(s) == IF s.tle.xno = 1 THEN "ORBIT_TYPE_GEO" ELSE "ORBIT_TYPE_UNKNOWN"

\* ------------------------------------------------------------ sat_data_init
\* what the propagator, Convert_Sat_State and Magnitude leave in sat
EphemSet == {[pos_w |-> 2 * xkmper, vel_w |-> 7, phase |-> pi \div 2]}
\* what Calculate_Obs can return (radians, km, km/s)
ObsSets == {[az |-> pi \div 2, el |-> 1, range |-> 9000, range_rate |-> 3],
            [az |-> pi, el |-> 2, range |-> 7000, range_rate |-> 0 - 2]}
\* what Calculate_LatLonAlt can return
LonSet == {k * (pi \div 2) : k \in (0 - MaxQuarterTurns)..MaxQuarterTurns}
GeoSets == [lon : LonSet, lat : {1}, alt : {800}]

\* ObsGeodetic with the else branch of lines 211-216 left out: the observer
\* keeps whatever the stack held
ObsGeodeticUnset(qth) ==
    IF qth # NULL_QTH
    THEN LET q == CHOOSE x \in qth : TRUE
         IN  [lon |-> Radians(q.lon), lat |-> Radians(q.lat),
              alt |-> q.alt \div 1000, theta |-> 0]
    ELSE [lon |-> 1, lat |-> 2, alt |-> 3, theta |-> 0]

\* lines 205-216: the observer handed to Calculate_Obs
ObsGeodetic(qth) ==
    IF qth # NULL_QTH
    THEN LET q == CHOOSE x \in qth : TRUE
         IN  [lon |-> Radians(q.lon), lat |-> Radians(q.lat),
              alt |-> q.alt \div 1000, theta |-> 0]
    ELSE [lon |-> 0, lat |-> 0, alt |-> 0, theta |-> 0]

\* Propagator with the test of line 219 dropped
PropagatorAlwaysSGP4(flags) == "SGP4"

\* lines 219-222: the propagator sat_data_init calls
Propagator(flags) == IF DEEP_SPACE_EPHEM_FLAG \in flags THEN "SDP4" ELSE "SGP4"

SGP4(s, tsince, eph) ==
    [s EXCEPT !.flags = @ \cup {SGP4_INITIALIZED_FLAG},
              !.pos_w = eph.pos_w, !.vel_w = eph.vel_w, !.phase = eph.phase]

SDP4(s, tsince, eph) ==
    [s EXCEPT !.flags = @ \cup {SDP4_INITIALIZED_FLAG},
              !.pos_w = eph.pos_w, !.vel_w = eph.vel_w, !.phase = eph.phase]

\* while (sat_geodetic.lon < -pi) sat_geodetic.lon += twopi;
RECURSIVE AddTwopi(_)
AddTwopi(lon) == IF lon < 0 - pi THEN AddTwopi(lon + twopi) ELSE lon

\* while (sat_geodetic.lon > (pi)) sat_geodetic.lon -= twopi;
RECURSIVE SubTwopi(_)
SubTwopi(lon) == IF lon > pi THEN SubTwopi(lon - twopi) ELSE lon

NormLon(lon) == SubTwopi(AddTwopi(lon))

\* lines 249-252, over the common denominator twopi:
\* floor((xno*xmnpda/twopi + age*bstar*ae)*age + xmo/twopi) + revnum - 1
OrbitNumber(tle) ==
    LET age == 0
        drift == (tle.xno * xmnpda + age * tle.bstar * ae * twopi) * age
    IN  ((drift + tle.xmo) \div twopi) + tle.revnum - 1

\* a sat_t * is the set of what it points to: empty when it is NULL
NULL_SAT == {}
Deref(sp) == CHOOSE x \in sp : TRUE

\* lines 191-256: *sat after sat_data_init (sat, qth), given what the
\* propagator, Calculate_Obs and Calculate_LatLonAlt return.  A NULL sat
\* returns at line 199 and nothing is written.  (sat->ma is exact for the
\* phases of EphemSet.)
sat_data_init(sp, qth, eph, obs_set, sat_geodetic) ==
    IF sp = NULL_SAT THEN NULL_SAT ELSE
    LET s == Deref(sp)
        jul_utc == Julian_Date_of_Epoch(s.tle.epoch)
        s1 == [s EXCEPT !.jul_epoch = jul_utc]
        s2 == IF Propagator(s1.flags) = "SDP4" THEN SDP4(s1, 0, eph) ELSE SGP4(s1, 0, eph)
        lon == NormLon(sat_geodetic.lon)
        s3 == [s2 EXCEPT !.velo = s2.vel_w,
                         !.az = Degrees(obs_set.az),
                         !.el = Degrees(obs_set.el),
                         !.range = obs_set.range,
                         !.range_rate = obs_set.range_rate,
                         !.ssplat = Degrees(sat_geodetic.lat),
                         !.ssplon = Degrees(lon),
                         !.alt = sat_geodetic.alt,
                         !.ma = (Degrees(s2.phase) * 256) \div 360,
                         !.footprint = 2 * xkmper * acos(xkmper, s2.pos_w),
                         !.orbit = OrbitNumber(s2.tle)]
    IN  {[s3 EXCEPT !.otype = get_orbit_type(s3)]}

\* ClearFlags with line 136 left out
ClearFlagsSkipped(s) == s

\* line 136: sat->flags = 0
ClearFlags(s) == [s EXCEPT !.flags = {}]

\* lines 141-157
ZeroVariableFields(s) ==
    [s EXCEPT !.jul_utc = 0, !.tsince = 0, !.az = 0, !.el = 0, !.range = 0,
              !.range_rate = 0, !.ra = 0, !.dec = 0, !.ssplat = 0, !.ssplon = 0,
              !.alt = 0, !.velo = 0, !.ma = 0, !.footprint = 0, !.phase = 0,
              !.aos = 0, !.los = 0]

\* --------------------------------------------------------- satellite states
\* a sat_t fresh from g_new0
SatZero ==
    [flags |-> {}, tle |-> TleZero, pos_w |-> 0, vel_w |-> 0,
     jul_utc |-> 0, tsince |-> 0, az |-> 0, el |-> 0, range |-> 0, range_rate |-> 0,
     ra |-> 0, dec |-> 0, ssplat |-> 0, ssplon |-> 0, alt |-> 0, velo |-> 0,
     ma |-> 0, footprint |-> 0, phase |-> 0, aos |-> 0, los |-> 0,
     orbit |-> 0, otype |-> "ORBIT_TYPE_UNKNOWN", jul_epoch |-> 0]

\* a sat_t that was read before (lines 113-160) and has been tracked since
SatUsed(l1, l2, obs_set) ==
    LET parsed == [SatZero EXCEPT !.tle = Convert_Satellite_Data(<<NameLine, l1, l2>>)]
        inited == Deref(sat_data_init({ZeroVariableFields(select_ephemeris(ClearFlags(parsed)))},
                                      NULL_QTH, CHOOSE e \in EphemSet : TRUE, obs_set,
                                      [lon |-> pi \div 2, lat |-> 1, alt |-> 800]))
    IN  [inited EXCEPT !.jul_utc = inited.jul_epoch + 1, !.tsince = xmnpda,
                       !.ra = 1, !.dec = 2, !.aos = inited.jul_epoch + 2,
                       !.los = inited.jul_epoch + 3]

InitSats ==
    {SatZero,
     SatUsed(L1Cat5, L2Near, CHOOSE o \in ObsSets : o.az = pi),
     SatUsed(L1Cat7, L2Deep, CHOOSE o \in ObsSets : o.az = pi)}

\* -------------------------------------------------------------------- state
VARIABLES
    pc,            \* where the call stands
    catnum,        \* sat_data_read's argument
    filename,      \* what tle_lookup returned
    readable,      \* whether fopen (path, "r") succeeds
    file,          \* the lines of the file
    fpos,          \* lines fgets has consumed
    tle_str,       \* the three line buffers
    chunk,         \* iterations of the while loop so far
    fresh,         \* lines fgets delivered in the current iteration
    found,
    errorcode,
    parse_ret,     \* what Get_Next_Tle_Set returned, once the log shows its call
    ret,           \* the value returned, once pc is "done"
    log,           \* the calls made so far, in order
    sat,           \* *sat
    sat0,          \* *sat when the call began
    qth,           \* sat_data_init's second argument
    obs_geodetic,  \* the observers handed to Calculate_Obs so far
    build,         \* how the build converts a double to guint (line 101)
    ext            \* what the propagator, Calculate_Obs and Calculate_LatLonAlt
                   \* returned in the last sat_data_init

vars == <<pc, catnum, filename, readable, file, fpos, tle_str, chunk, fresh, found,
          errorcode, parse_ret, ret, log, sat, sat0, qth, obs_geodetic, build, ext>>

env == <<catnum, filename, readable, file, build>>

\* the time offset of a call that takes none
NoTime == 0 - 1

\* a call, with the loop iteration it happens in, the flags at that moment,
\* the time offset it is given and whether the sat it is given is NULL
Event(op) == [op |-> op, chunk |-> chunk, fresh |-> fresh, flags |-> sat.flags,
              tsince |-> NoTime, sat_null |-> FALSE]

NoExt == [eph |-> [pos_w |-> 0, vel_w |-> 0, phase |-> 0],
          obs_set |-> [az |-> 0, el |-> 0, range |-> 0, range_rate |-> 0],
          sat_geodetic |-> [lon |-> 0, lat |-> 0, alt |-> 0]]

\* lines 86-88 and 174: the error code after fopen
FopenErrorcode(ok, e) == IF ok THEN e ELSE 3

\* lines 113-121: the error code after Get_Next_Tle_Set returned r
ParseErrorcode(r, e) == IF r # 1 THEN 2 ELSE e

\* ParseAccepted with the else of line 122 lost: invalid data is initialised too
ParseAcceptedAlways(r) == TRUE

\* lines 113-122: whether the initialisation of lines 136-160 runs
ParseAccepted(r) == r = 1

\* line 103: catnr == catnum, with catnum converted to guint
CatalogMatches(nr, c) == nr = ToGuint(c)

\* lines 90-94: whether the loop goes on to compare after reading tle_str[0]
LoopContinues(f) == ~f

Min(a, b) == IF a < b THEN a ELSE b

Init ==
    /\ pc = "idle"
    /\ catnum = 0
    /\ filename = NULL
    /\ readable = FALSE
    /\ file = <<>>
    /\ fpos = 0
    /\ tle_str = <<UNINIT, UNINIT, UNINIT>>
    /\ chunk = 0
    /\ fresh = 0
    /\ found = FALSE
    /\ errorcode = 0
    /\ parse_ret = 0
    /\ ret = 0
    /\ log = <<>>
    /\ sat \in InitSats
    /\ sat0 = sat
    /\ qth = NULL_QTH
    /\ obs_geodetic = {}
    /\ build \in Builds
    /\ ext = NoExt

\* lines 56-76: entry, tle_lookup, and the return of 1 when it finds nothing
sat_data_read_enter ==
    /\ pc = "idle"
    /\ \E c \in CatNums, fn \in {NULL, "amateur.tle"}, ok \in BOOLEAN, f \in Files :
        /\ (fn = NULL => ~ok)
        /\ (~ok => f = <<>>)
        /\ catnum' = c
        /\ filename' = fn
        /\ readable' = ok
        /\ file' = f
        /\ IF fn = NULL
           THEN /\ ret' = 1
                /\ pc' = "done"
           ELSE /\ ret' = ret
                /\ pc' = "fopen"
    /\ sat0' = sat
    /\ UNCHANGED <<fpos, tle_str, chunk, fresh, found, errorcode, parse_ret, log, sat,
                   qth, obs_geodetic, build, ext>>

\* lines 79-88 and 169-175
fopen ==
    /\ pc = "fopen"
    /\ pc' = IF readable THEN "while" ELSE "return"
    /\ errorcode' = FopenErrorcode(readable, errorcode)
    /\ UNCHANGED <<env, fpos, tle_str, chunk, fresh, found, parse_ret, ret, log, sat,
                   sat0, qth, obs_geodetic, ext>>

\* lines 90-111: the loop test, the two further fgets calls whose results are
\* ignored, and the comparison.  A buffer fgets did not fill keeps what it
\* held; one that was never written holds anything.
ReadRecord ==
    /\ pc = "while"
    /\ IF fpos >= Len(file)
       THEN /\ pc' = "return"
            /\ UNCHANGED <<fpos, tle_str, chunk, fresh, found, log>>
       ELSE IF ~LoopContinues(found)
       THEN /\ pc' = "return"
            /\ fpos' = fpos + 1
            /\ tle_str' = [tle_str EXCEPT ![1] = file[fpos + 1]]
            /\ UNCHANGED <<chunk, fresh, found, log>>
       ELSE LET n == Min(3, Len(file) - fpos)
            IN  \E g1, g2 \in LineSet :
                  LET b1 == IF n >= 2 THEN file[fpos + 2]
                            ELSE IF tle_str[2] = UNINIT THEN g1 ELSE tle_str[2]
                      b2 == IF n >= 3 THEN file[fpos + 3]
                            ELSE IF tle_str[3] = UNINIT THEN g2 ELSE tle_str[3]
                  IN  /\ tle_str' = <<file[fpos + 1], b1, b2>>
                      /\ fpos' = fpos + n
                      /\ chunk' = chunk + 1
                      /\ fresh' = n
                      /\ log' = Append(log, [Event("compare") EXCEPT
                                                 !.chunk = chunk + 1, !.fresh = n])
                      /\ IF CatalogMatches(catnr(b1, build), catnum)
                         THEN /\ found' = TRUE
                              /\ pc' = "parse"
                         ELSE /\ found' = found
                              /\ pc' = "while"
    /\ UNCHANGED <<env, errorcode, parse_ret, ret, sat, sat0, qth, obs_geodetic, ext>>

\* lines 113-127
Parse ==
    /\ pc = "parse"
    /\ parse_ret' = Get_Next_Tle_Set(tle_str)
    /\ log' = Append(log, Event("Get_Next_Tle_Set"))
    /\ errorcode' = ParseErrorcode(parse_ret', errorcode)
    /\ sat' = IF parse_ret' = 1
              THEN [sat EXCEPT !.tle = Convert_Satellite_Data(tle_str)]
              ELSE sat
    /\ pc' = IF ParseAccepted(parse_ret') THEN "flags" ELSE "while"
    /\ UNCHANGED <<env, fpos, tle_str, chunk, fresh, found, ret, sat0, qth, obs_geodetic, ext>>

\* line 136
ResetFlags ==
    /\ pc = "flags"
    /\ sat' = ClearFlags(sat)
    /\ log' = Append(log, Event("flags = 0"))
    /\ pc' = "select"
    /\ UNCHANGED <<env, fpos, tle_str, chunk, fresh, found, errorcode, parse_ret, ret,
                   sat0, qth, obs_geodetic, ext>>

\* line 138
SelectEphemeris ==
    /\ pc = "select"
    /\ sat' = select_ephemeris(sat)
    /\ log' = Append(log, Event("select_ephemeris"))
    /\ pc' = "zero"
    /\ UNCHANGED <<env, fpos, tle_str, chunk, fresh, found, errorcode, parse_ret, ret,
                   sat0, qth, obs_geodetic, ext>>

\* lines 140-157
ZeroFields ==
    /\ pc = "zero"
    /\ sat' = ZeroVariableFields(sat)
    /\ log' = Append(log, Event("zero"))
    /\ pc' = "init"
    /\ UNCHANGED <<env, fpos, tle_str, chunk, fresh, found, errorcode, parse_ret, ret,
                   sat0, qth, obs_geodetic, ext>>

\* lines 199 and 219-222: the call of sat_data_init and the calls it makes
\* that the log keeps: none when sat is NULL, else SDP4 (sat, 0.0) or
\* SGP4 (sat, 0.0)
InitEvents(sp) ==
    IF sp = NULL_SAT
    THEN <<[Event("sat_data_init") EXCEPT !.sat_null = TRUE]>>
    ELSE <<Event("sat_data_init"),
           [Event(Propagator(Deref(sp).flags)) EXCEPT !.tsince = 0]>>

\* lines 159-160 with 191-256: sat_data_init (sat, NULL)
InitAtEpoch ==
    /\ pc = "init"
    /\ qth' = NULL_QTH
    /\ obs_geodetic' = obs_geodetic \cup {ObsGeodetic(qth')}
    /\ ext' \in [eph : EphemSet, obs_set : ObsSets, sat_geodetic : GeoSets]
    /\ sat' = Deref(sat_data_init({sat}, qth', ext'.eph, ext'.obs_set, ext'.sat_geodetic))
    /\ log' = log \o InitEvents({sat})
    /\ pc' = "while"
    /\ UNCHANGED <<env, fpos, tle_str, chunk, fresh, found, errorcode, parse_ret, ret, sat0>>

\* lines 167 and 177-180
Return ==
    /\ pc = "return"
    /\ ret' = errorcode
    /\ pc' = "done"
    /\ UNCHANGED <<env, fpos, tle_str, chunk, fresh, found, errorcode, parse_ret, log,
                   sat, sat0, qth, obs_geodetic, ext>>

\* lines 191-256: sat_data_init called from outside sat_data_read, with a
\* satellite or with NULL, with or without an observer
sat_data_init_call ==
    /\ pc = "idle"
    /\ \E sp \in {NULL_SAT, {sat}} :
         /\ qth' \in {NULL_QTH} \cup {{q} : q \in QthSet}
         /\ IF sp = NULL_SAT
            THEN UNCHANGED <<obs_geodetic, ext, sat>>
            ELSE /\ obs_geodetic' = obs_geodetic \cup {ObsGeodetic(qth')}
                 /\ ext' \in [eph : EphemSet, obs_set : ObsSets, sat_geodetic : GeoSets]
                 /\ sat' = Deref(sat_data_init(sp, qth', ext'.eph, ext'.obs_set,
                                               ext'.sat_geodetic))
         /\ log' = log \o InitEvents(sp)
    /\ pc' = "inited"
    /\ sat0' = sat
    /\ UNCHANGED <<env, fpos, tle_str, chunk, fresh, found, errorcode, parse_ret, ret>>

Next ==
    \/ sat_data_read_enter
    \/ fopen
    \/ ReadRecord
    \/ Parse
    \/ ResetFlags
    \/ SelectEphemeris
    \/ ZeroFields
    \/ InitAtEpoch
    \/ Return
    \/ sat_data_init_call

Spec == Init /\ [][Next]_vars

\* ------------------------------------------------------- reading the log
Ops(ops) == {i \in DOMAIN log : log[i].op \in ops}
Called(op) == Ops({op}) # {}
PropagatorOps == {"SGP4", "SDP4"}

\* the calls of lines 136-160, in the order the log holds them
InitOps == {"flags = 0", "select_ephemeris", "zero", "sat_data_init", "SGP4", "SDP4"}
IsInitOp(e) == e.op \in InitOps
InitTrace == [i \in DOMAIN SelectSeq(log, IsInitOp) |-> SelectSeq(log, IsInitOp)[i].op]

IsPrefix(a, b) == Len(a) <= Len(b) /\ \A i \in DOMAIN a : a[i] = b[i]

\* the matching record was accepted by Get_Next_Tle_Set
Accepted == Called("Get_Next_Tle_Set") /\ parse_ret = 1

\* sat_data_init was called with a sat that is not NULL and went on after
\* line 199
InitRan == \E i \in Ops({"sat_data_init"}) : ~log[i].sat_null

\* ---------------------------------------------------- reading the file
\* the line of the file that is line j (1..3) of its k-th group of three
LineAt(f, k, j) == f[3 * (k - 1) + j]
HasLine(f, k, j) == 3 * (k - 1) + j <= Len(f)
Groups(f) == 1..((Len(f) + 2) \div 3)

\* some group of the file has a first data line whose catalog field the
\* comparison of line 103 finds equal to c
FileHasCatalog(f, c) ==
    \E k \in Groups(f) : HasLine(f, k, 2) /\ CatalogMatches(catnr(LineAt(f, k, 2), build), c)

\* the whole three-line records whose catalog field the comparison of
\* line 103 finds equal to c
WholeMatches(f, c) ==
    {k \in Groups(f) : HasLine(f, k, 3) /\ CatalogMatches(catnr(LineAt(f, k, 2), build), c)}

\* the fields C4 names
Derived(s) ==
    [flags |-> s.flags, jul_utc |-> s.jul_utc, tsince |-> s.tsince, az |-> s.az,
     el |-> s.el, range |-> s.range, range_rate |-> s.range_rate, ra |-> s.ra,
     dec |-> s.dec, ssplat |-> s.ssplat, ssplon |-> s.ssplon, alt |-> s.alt,
     velo |-> s.velo, ma |-> s.ma, footprint |-> s.footprint, phase |-> s.phase,
     aos |-> s.aos, los |-> s.los, orbit |-> s.orbit, otype |-> s.otype,
     jul_epoch |-> s.jul_epoch]

Topocentric(s) == <<s.az, s.el, s.range, s.range_rate>>

\* -------------------------------------------------------------------- C1
\* C1: sat_data_read returns 0 only when a record with catalog number catnum
\* was found, accepted by Get_Next_Tle_Set and initialised at epoch, and it
\* returns 1 whenever no such record is found: when tle_lookup returns no
\* file name, and when the file opens but holds no record whose catalog field
\* equals catnum (an empty file included).
C1_ZeroOnlyWhenInitialisedElseOne ==
    pc = "done" =>
        /\ (ret = 0 => found /\ Accepted /\ Called("sat_data_init"))
        /\ (filename = NULL \/ (readable /\ ~FileHasCatalog(file, catnum))) => ret = 1

\* -------------------------------------------------------------------- C2
\* C2: in a sat_data_read call whose matching record is accepted, sat->flags
\* is set to 0, then select_ephemeris is called, then the variable fields are
\* zeroed, then sat_data_init makes the first propagator call, each exactly
\* once and in this order; select_ephemeris sees no flag bit set, and no
\* propagator runs before it.
C2_InitialisationOrder ==
    pc # "inited" =>
        /\ \E p \in PropagatorOps :
             IsPrefix(InitTrace,
                      <<"flags = 0", "select_ephemeris", "zero", "sat_data_init", p>>)
        /\ \A i \in Ops({"select_ephemeris"}) : log[i].flags = {}
        /\ (pc = "done" /\ Accepted) => Len(InitTrace) = 5
        /\ (pc \in {"select", "zero", "init"}) => Accepted

C2_Witness ==
    /\ pc = "done"
    /\ Accepted
    /\ sat0.flags # {}
    /\ Len(InitTrace) = 5

\* -------------------------------------------------------------------- C3
\* C3 as stated: each sat_data_init call invokes exactly one propagator, at
\* time offset 0.0: SDP4 if and only if DEEP_SPACE_EPHEM_FLAG is set at that
\* moment, SGP4 otherwise; and after a successful sat_data_read the
\* propagator that ran is the one matching the flag the read's single
\* select_ephemeris call left.
C3_EachCallOnePropagator ==
    /\ \A i \in Ops({"sat_data_init"}) :
         /\ i + 1 = Len(log)
         /\ log[i + 1].op \in PropagatorOps
         /\ log[i + 1].tsince = 0
         /\ (log[i + 1].op = "SDP4") = (DEEP_SPACE_EPHEM_FLAG \in log[i].flags)
    /\ \A i \in Ops(PropagatorOps) : i > 1 /\ log[i - 1].op = "sat_data_init"
    /\ Cardinality(Ops(PropagatorOps)) <= 1
    /\ (pc = "done" /\ Accepted) =>
         /\ Cardinality(Ops({"select_ephemeris"})) = 1
         /\ Cardinality(Ops(PropagatorOps)) = 1
         \* the "zero" entry holds the flags select_ephemeris left
         /\ \A i \in Ops({"zero"}) :
              Called("SDP4") = (DEEP_SPACE_EPHEM_FLAG \in log[i].flags)
         /\ Called("SDP4") = (DEEP_SPACE_EPHEM_FLAG \in sat.flags)

\* C3 as amended: each sat_data_init call with a sat that is not NULL invokes
\* exactly one propagator, at time offset 0.0: SDP4 if and only if
\* DEEP_SPACE_EPHEM_FLAG is set at that moment, SGP4 otherwise; a call with
\* a NULL sat invokes none; and after a successful sat_data_read the
\* propagator that ran is the one matching the flag the read's single
\* select_ephemeris call left.
C3_OnePropagatorWhenSatGiven ==
    /\ \A i \in Ops({"sat_data_init"}) :
         IF log[i].sat_null
         THEN i = Len(log)
         ELSE /\ i + 1 = Len(log)
              /\ log[i + 1].op \in PropagatorOps
              /\ log[i + 1].tsince = 0
              /\ (log[i + 1].op = "SDP4") = (DEEP_SPACE_EPHEM_FLAG \in log[i].flags)
    /\ \A i \in Ops(PropagatorOps) :
         i > 1 /\ log[i - 1].op = "sat_data_init" /\ ~log[i - 1].sat_null
    /\ Cardinality(Ops(PropagatorOps)) <= 1
    /\ (pc = "done" /\ Accepted) =>
         /\ Cardinality(Ops({"select_ephemeris"})) = 1
         /\ Cardinality(Ops(PropagatorOps)) = 1
         /\ \A i \in Ops({"zero"}) :
              Called("SDP4") = (DEEP_SPACE_EPHEM_FLAG \in log[i].flags)
         /\ Called("SDP4") = (DEEP_SPACE_EPHEM_FLAG \in sat.flags)

C3_Witness ==
    /\ pc = "done"
    /\ Accepted
    /\ Called("SDP4")
    /\ DEEP_SPACE_EPHEM_FLAG \notin sat0.flags

\* -------------------------------------------------------------------- C4
\* C4: whenever sat_data_read returns 1, 2 or 3, select_ephemeris, SGP4, SDP4
\* and sat_data_init were not called in that call, and sat->flags and every
\* derived field of sat have the values they had before the call.
C4_FailureLeavesSatUntouched ==
    (pc = "done" /\ ret # 0) =>
        /\ Ops({"select_ephemeris", "SGP4", "SDP4", "sat_data_init", "flags = 0", "zero"}) = {}
        /\ Derived(sat) = Derived(sat0)

C4_Witness ==
    /\ pc = "done"
    /\ ret = 2
    /\ Called("Get_Next_Tle_Set")
    /\ sat0.flags # {}
    /\ sat0.az # 0

\* -------------------------------------------------------------------- C5
\* C5: sat_data_read returns 3 exactly when tle_lookup gave a file name and
\* the file could not be opened (no line is then read and nothing parsed); it
\* returns 2 exactly when a record of the file whose catalog field equals
\* catnum was found and Get_Next_Tle_Set returned a value other than 1 for
\* it; and the value returned is always one of 0, 1, 2, 3.
C5_FailureCodes ==
    pc = "done" =>
        /\ ret \in {0, 1, 2, 3}
        /\ (ret = 3) = (filename # NULL /\ ~readable)
        /\ ret = 3 => (fpos = 0 /\ log = <<>>)
        /\ (ret = 2) = (\E i \in Ops({"Get_Next_Tle_Set"}) :
                           /\ log[i].chunk \in WholeMatches(file, catnum)
                           /\ parse_ret # 1)

\* -------------------------------------------------------------------- C6
\* C6: after sat_data_init the revolution number sat->orbit is never
\* negative, for every element set with tle.revnum >= 0 and tle.xmo in
\* [0, 2*pi).
C6_OrbitNeverNegative ==
    (InitRan /\ sat.tle.revnum >= 0
        /\ sat.tle.xmo >= 0 /\ sat.tle.xmo < twopi) => sat.orbit >= 0

\* -------------------------------------------------------------------- C7
\* C7: after sat_data_init the sub-satellite longitude sat->ssplon is
\* strictly greater than -180 degrees and at most 180 degrees, for every
\* longitude Calculate_LatLonAlt can return, -pi and the odd multiples of pi
\* included.
C7_LongitudeHalfOpen ==
    InitRan => (sat.ssplon > 0 - 180 /\ sat.ssplon <= 180)

\* -------------------------------------------------------------------- C8
\* sat_data_init was called without an observer
InitWithoutObserver == Called("sat_data_init") /\ qth = NULL_QTH

\* az, el, range and range_rate as they were when sat_data_init was entered:
\* zeroed by lines 143-146 in sat_data_read, the caller's otherwise
TopocentricBefore == IF pc = "inited" THEN Topocentric(sat0) ELSE <<0, 0, 0, 0>>

C9_ParsesFirstWholeMatchOnly ==
    /\ Cardinality(Ops({"Get_Next_Tle_Set"})) <= 1
    /\ \A i \in Ops({"Get_Next_Tle_Set"}) :
         /\ WholeMatches(file, catnum) # {}
         /\ \A k \in WholeMatches(file, catnum) : log[i].chunk <= k
         /\ log[i].chunk \in WholeMatches(file, catnum)
    /\ \A i \in Ops({"compare", "Get_Next_Tle_Set"}) :
         \A k \in WholeMatches(file, catnum) : log[i].chunk <= k

\* ------------------------------------------------------------------- C10
\* C10: sat_data_read compares the catalog field of a record and hands the
\* record to Get_Next_Tle_Set only when all three of its lines were read from
\* the file in the current loop iteration.
C10_OnlyWholeRecordsUsed ==
    \A i \in Ops({"compare", "Get_Next_Tle_Set"}) : log[i].fresh = 3

====
